---- MODULE Spec2Model ----
(***************************************************************************)
(* The three diagnostic scripts of the repository, one run of one script   *)
(* per behaviour:                                                          *)
(*   src/src-tauri/scripts/script_check_insightface.py   ("insightface")   *)
(*   src/src-tauri/scripts/script_check_onnx.py          ("onnx")          *)
(*   src/vendor/comfyui/check_torch.py                   ("torch")         *)
(* pc is the source line about to be executed (0 once the process has      *)
(* exited).  The probed library is the environment: what its import and    *)
(* its queries return or raise is chosen with \E at the step that calls    *)
(* them.  stdout and stderr are the lines written so far, as strings.      *)
(* version is the __version__ of the probed library; deviceCount and       *)
(* currentDevice hold what torch.cuda.device_count() and                   *)
(* torch.cuda.current_device() returned at lines 9 and 10 (<<>> before the *)
(* call).  raised is the exception the library raised in this run (NoExc   *)
(* if none), e the exception bound by the except clause that caught it;    *)
(* imports and queries count the import attempts and the library queries   *)
(* made.                                                                   *)
(***************************************************************************)
EXTENDS Integers, Sequences, FiniteSets, TLC

VARIABLES script, pc, stdout, stderr, status, e, raised, imports, queries,
          deviceCount, currentDevice, version, availBranch

vars == <<script, pc, stdout, stderr, status, e, raised, imports, queries,
          deviceCount, currentDevice, version, availBranch>>

(***************************************************************************)
(* Bounds of the environment.                                              *)
(***************************************************************************)
MaxDevices == 2

Scripts == {"insightface", "onnx", "torch"}
Probes == {"insightface", "onnx"}

Msgs == {"boom", "DLL load failed"}
Versions == {"1.2.3", "2.0.1"}
PythonVersions == {"3.10.11 (main)", "3.12.4 (main)"}
ExitCodes == {0, 2}
SysPaths == {<<>>, <<"", "/usr/lib/python3">>}
PathEnvs == {"None", "/usr/bin"}
ProviderLists == {<<"CPUExecutionProvider">>,
                  <<"CUDAExecutionProvider", "CPUExecutionProvider">>}
CudaVersions == {"None", "12.1"}
DeviceNames == {"NVIDIA GeForce RTX 3090"}

(***************************************************************************)
(* Python exceptions.  Bases(k) is the set of classes an exception of      *)
(* class k is an instance of (the built-in class hierarchy).               *)
(***************************************************************************)
Bases(k) ==
    CASE k = "ModuleNotFoundError" ->
             {"ModuleNotFoundError", "ImportError", "Exception", "BaseException"}
      [] k = "ImportError" -> {"ImportError", "Exception", "BaseException"}
      [] k = "RuntimeError" -> {"RuntimeError", "Exception", "BaseException"}
      [] k = "SystemExit" -> {"SystemExit", "BaseException"}
      [] OTHER -> {}

IsInstance(x, cls) == cls \in Bases(x.kind)

NoExc == [kind |-> "none", msg |-> "", code |-> 0, origin |-> "none"]

\* what a call into the probed library can raise
LibRaises ==
    [kind : {"ModuleNotFoundError", "ImportError", "RuntimeError"},
     msg : Msgs, code : {0}]
    \cup [kind : {"SystemExit"}, msg : {""}, code : ExitCodes]

At(x, origin) ==
    [kind |-> x.kind, msg |-> x.msg, code |-> x.code, origin |-> origin]

\* str(e), as the f-strings of the handlers format the exception
Str(x) == IF x.kind = "SystemExit" THEN ToString(x.code) ELSE x.msg

(***************************************************************************)
(* Formatting done by print and the f-strings.                             *)
(***************************************************************************)
StrBool(b) == IF b THEN "True" ELSE "False"

Repr(s) == "'" \o s \o "'"

RECURSIVE Join(_)
Join(l) ==
    IF l = <<>> THEN ""
    ELSE IF Len(l) = 1 THEN Repr(l[1])
    ELSE Repr(l[1]) \o ", " \o Join(Tail(l))

\* str() of a list of strings
StrList(l) == "[" \o Join(l) \o "]"

\* the traceback of exception x: header and final line (the frame lines,
\* which hold file paths, are left out)
FormatException(x) ==
    <<"Traceback (most recent call last):",
      IF Str(x) = "" THEN x.kind ELSE x.kind \o ": " \o Str(x)>>

(***************************************************************************)
(* Tests on output text.                                                   *)
(***************************************************************************)
StartsWith(s, p) == Len(s) >= Len(p) /\ SubSeq(s, 1, Len(p)) = p

Contains(s, p) ==
    \E i \in 1..(Len(s) - Len(p) + 1) : SubSeq(s, i, i + Len(p) - 1) = p

HasLineStarting(out, p) == \E i \in 1..Len(out) : StartsWith(out[i], p)
HasLineContaining(out, p) == \E i \in 1..Len(out) : Contains(out[i], p)

(***************************************************************************)
(* Process start.                                                          *)
(***************************************************************************)
FirstLine(s) ==
    CASE s = "insightface" -> 4
      [] s = "onnx" -> 6
      [] s = "torch" -> 1

Init ==
    /\ script \in Scripts
    /\ pc = FirstLine(script)
    /\ stdout = <<>>
    /\ stderr = <<>>
    /\ status = -1
    /\ e = NoExc
    /\ raised = NoExc
    /\ imports = 0
    /\ queries = 0
    /\ deviceCount = <<>>
    /\ currentDevice = <<>>
    /\ version \in Versions
    /\ availBranch = "none"

(***************************************************************************)
(* Exception propagation.                                                  *)
(***************************************************************************)
\* the except clause of the probe's try statement that matches x, as a
\* line number; 0 when no clause matches
HandlerInsightface(x) ==
    IF IsInstance(x, "ImportError") THEN 9
    ELSE IF IsInstance(x, "Exception") THEN 12
    ELSE 0

\* variant: the second clause a bare "except:", which takes SystemExit too
HandlerOnnx_BareExcept(x) ==
    IF IsInstance(x, "ImportError") THEN 16 ELSE 20

\* variant: the script without its "except Exception" clause
HandlerOnnx_ImportErrorOnly(x) ==
    IF IsInstance(x, "ImportError") THEN 16 ELSE 0

HandlerOnnx(x) ==
    IF IsInstance(x, "ImportError") THEN 16
    ELSE IF IsInstance(x, "Exception") THEN 20
    ELSE 0

\* an exception no handler takes ends the process: SystemExit with its
\* code and no output, anything else with a traceback on stderr and 1
Uncaught(x) ==
    /\ pc' = 0
    /\ e' = e
    /\ IF IsInstance(x, "SystemExit")
       THEN /\ status' = x.code
            /\ stderr' = stderr
       ELSE /\ status' = 1
            /\ stderr' = stderr \o FormatException(x)

\* x raised at the current line; inTry: the line is in the try body
Raise(x, inTry) ==
    LET h == IF ~inTry THEN 0
             ELSE IF script = "insightface" THEN HandlerInsightface(x)
             ELSE IF script = "onnx" THEN HandlerOnnx(x)
             ELSE 0
    IN  IF h = 0
        THEN Uncaught(x)
        ELSE /\ pc' = h
             /\ e' = x
             /\ status' = status
             /\ stderr' = stderr

\* sys.exit(code)
SysExit(code, inTry) ==
    Raise([kind |-> "SystemExit", msg |-> "", code |-> code,
           origin |-> "sys.exit"], inTry)

WriteStdout(line) == stdout' = Append(stdout, line)

(***************************************************************************)
(* script_check_insightface.py                                             *)
(***************************************************************************)
InsightfaceImport ==
    /\ script = "insightface" /\ pc = 4
    /\ imports' = imports + 1
    /\ \/ /\ pc' = 5
          /\ UNCHANGED <<e, status, stderr, raised>>
       \/ \E x \in LibRaises :
             /\ raised' = At(x, "import")
             /\ Raise(At(x, "import"), TRUE)
    /\ UNCHANGED <<script, stdout, queries, deviceCount, currentDevice, version, availBranch>>

InsightfacePrintSuccess ==
    /\ script = "insightface" /\ pc = 5
    /\ WriteStdout("SUCCESS: insightface imported")
    /\ pc' = 7
    /\ UNCHANGED <<script, stderr, status, e, raised, imports, queries,
                   deviceCount, currentDevice, version, availBranch>>

InsightfaceExit0 ==
    /\ script = "insightface" /\ pc = 7
    /\ SysExit(0, TRUE)
    /\ UNCHANGED <<script, stdout, raised, imports, queries,
                   deviceCount, currentDevice, version, availBranch>>

InsightfacePrintImportError ==
    /\ script = "insightface" /\ pc = 9
    /\ WriteStdout("ERROR: Failed to import insightface")
    /\ pc' = 10
    /\ UNCHANGED <<script, stderr, status, e, raised, imports, queries,
                   deviceCount, currentDevice, version, availBranch>>

InsightfaceExitImportError ==
    /\ script = "insightface" /\ pc = 10
    /\ SysExit(1, FALSE)
    /\ UNCHANGED <<script, stdout, raised, imports, queries,
                   deviceCount, currentDevice, version, availBranch>>

InsightfacePrintOtherError ==
    /\ script = "insightface" /\ pc = 12
    /\ WriteStdout("ERROR: Other error with insightface: " \o Str(e))
    /\ pc' = 13
    /\ UNCHANGED <<script, stderr, status, e, raised, imports, queries,
                   deviceCount, currentDevice, version, availBranch>>

InsightfaceExitOtherError ==
    /\ script = "insightface" /\ pc = 13
    /\ SysExit(1, FALSE)
    /\ UNCHANGED <<script, stdout, raised, imports, queries,
                   deviceCount, currentDevice, version, availBranch>>

(***************************************************************************)
(* script_check_onnx.py                                                    *)
(***************************************************************************)
OnnxPrintSysPath ==
    /\ script = "onnx" /\ pc = 6
    /\ \E p \in SysPaths : WriteStdout("DEBUG: sys.path: " \o StrList(p))
    /\ pc' = 7
    /\ UNCHANGED <<script, stderr, status, e, raised, imports, queries,
                   deviceCount, currentDevice, version, availBranch>>

OnnxPrintPathEnv ==
    /\ script = "onnx" /\ pc = 7
    /\ \E v \in PathEnvs :
          WriteStdout("DEBUG: PATH environment variable: " \o v)
    /\ pc' = 10
    /\ UNCHANGED <<script, stderr, status, e, raised, imports, queries,
                   deviceCount, currentDevice, version, availBranch>>

OnnxImport ==
    /\ script = "onnx" /\ pc = 10
    /\ imports' = imports + 1
    /\ \/ /\ pc' = 11
          /\ UNCHANGED <<e, status, stderr, raised>>
       \/ \E x \in LibRaises :
             /\ raised' = At(x, "import")
             /\ Raise(At(x, "import"), TRUE)
    /\ UNCHANGED <<script, stdout, queries, deviceCount, currentDevice, version, availBranch>>

OnnxPrintSuccess ==
    /\ script = "onnx" /\ pc = 11
    /\ WriteStdout("SUCCESS: onnxruntime imported")
    /\ pc' = 12
    /\ UNCHANGED <<script, stderr, status, e, raised, imports, queries,
                   deviceCount, currentDevice, version, availBranch>>

\* variant: the version line left out, as in script_check_insightface.py
OnnxPrintVersion_NotPrinted ==
    /\ script = "onnx" /\ pc = 12
    /\ pc' = 13
    /\ UNCHANGED <<script, stdout, stderr, status, e, raised, imports,
                   queries, deviceCount, currentDevice, version, availBranch>>

OnnxPrintVersion ==
    /\ script = "onnx" /\ pc = 12
    /\ queries' = queries + 1
    /\ \/ /\ WriteStdout("ONNX Runtime version: " \o version)
          /\ pc' = 13
          /\ UNCHANGED <<e, status, stderr, raised>>
       \/ \E x \in LibRaises :
             /\ raised' = At(x, "__version__")
             /\ Raise(At(x, "__version__"), TRUE)
             /\ UNCHANGED stdout
    /\ UNCHANGED <<script, imports, deviceCount, currentDevice, version, availBranch>>

OnnxPrintProviders ==
    /\ script = "onnx" /\ pc = 13
    /\ queries' = queries + 1
    /\ \/ \E l \in ProviderLists :
             /\ WriteStdout("ONNX Runtime providers: " \o StrList(l))
             /\ pc' = 14
             /\ UNCHANGED <<e, status, stderr, raised>>
       \/ \E x \in LibRaises :
             /\ raised' = At(x, "get_available_providers")
             /\ Raise(At(x, "get_available_providers"), TRUE)
             /\ UNCHANGED stdout
    /\ UNCHANGED <<script, imports, deviceCount, currentDevice, version, availBranch>>

OnnxExit0 ==
    /\ script = "onnx" /\ pc = 14
    /\ SysExit(0, TRUE)
    /\ UNCHANGED <<script, stdout, raised, imports, queries,
                   deviceCount, currentDevice, version, availBranch>>

OnnxPrintImportError ==
    /\ script = "onnx" /\ pc = 16
    /\ WriteStdout("ERROR: Failed to import onnxruntime: " \o Str(e))
    /\ pc' = 17
    /\ UNCHANGED <<script, stderr, status, e, raised, imports, queries,
                   deviceCount, currentDevice, version, availBranch>>

\* traceback.print_exc(): the traceback of the exception being handled,
\* written to sys.stderr (the default of its file argument)
PrintExc == stderr' = stderr \o FormatException(e)

OnnxTraceImportError ==
    /\ script = "onnx" /\ pc = 17
    /\ PrintExc
    /\ pc' = 18
    /\ UNCHANGED <<script, stdout, status, e, raised, imports, queries,
                   deviceCount, currentDevice, version, availBranch>>

\* variant: the handler ends with sys.exit(0)
OnnxExitImportError_Status0 ==
    /\ script = "onnx" /\ pc = 18
    /\ SysExit(0, FALSE)
    /\ UNCHANGED <<script, stdout, raised, imports, queries,
                   deviceCount, currentDevice, version, availBranch>>

OnnxExitImportError ==
    /\ script = "onnx" /\ pc = 18
    /\ SysExit(1, FALSE)
    /\ UNCHANGED <<script, stdout, raised, imports, queries,
                   deviceCount, currentDevice, version, availBranch>>

OnnxPrintOtherError ==
    /\ script = "onnx" /\ pc = 20
    /\ WriteStdout("ERROR: Other error with onnxruntime: " \o Str(e))
    /\ pc' = 21
    /\ UNCHANGED <<script, stderr, status, e, raised, imports, queries,
                   deviceCount, currentDevice, version, availBranch>>

OnnxTraceOtherError ==
    /\ script = "onnx" /\ pc = 21
    /\ PrintExc
    /\ pc' = 22
    /\ UNCHANGED <<script, stdout, status, e, raised, imports, queries,
                   deviceCount, currentDevice, version, availBranch>>

OnnxExitOtherError ==
    /\ script = "onnx" /\ pc = 22
    /\ SysExit(1, FALSE)
    /\ UNCHANGED <<script, stdout, raised, imports, queries,
                   deviceCount, currentDevice, version, availBranch>>

(***************************************************************************)
(* check_torch.py.  torch is the environment: every call returns whatever  *)
(* the library returns at that call, and the script prints it unchecked.   *)
(***************************************************************************)
\* what one call of torch.cuda.is_available() can return; successive calls
\* need not agree
IsAvailable == BOOLEAN

\* what torch.cuda.device_count() and torch.cuda.current_device() can return
DeviceCounts == 0..MaxDevices
DeviceIndexes == (0 - 1)..MaxDevices

TorchImport ==
    /\ script = "torch" /\ pc = 1
    /\ imports' = imports + 1
    /\ \/ /\ pc' = 4
          /\ UNCHANGED <<e, status, stderr, raised>>
       \/ \E x \in LibRaises :
             /\ raised' = At(x, "import")
             /\ Raise(At(x, "import"), FALSE)
    /\ UNCHANGED <<script, stdout, queries, deviceCount, currentDevice,
                   version, availBranch>>

TorchPrintPython ==
    /\ script = "torch" /\ pc = 4
    /\ \E v \in PythonVersions : WriteStdout("Python Version: " \o v)
    /\ pc' = 5
    /\ UNCHANGED <<script, stderr, status, e, raised, imports, queries,
                   deviceCount, currentDevice, version, availBranch>>

TorchPrintVersion ==
    /\ script = "torch" /\ pc = 5
    /\ queries' = queries + 1
    /\ \/ /\ WriteStdout("PyTorch Version: " \o version)
          /\ pc' = 6
          /\ UNCHANGED <<e, status, stderr, raised>>
       \/ \E x \in LibRaises :
             /\ raised' = At(x, "__version__")
             /\ Raise(At(x, "__version__"), FALSE)
             /\ UNCHANGED stdout
    /\ UNCHANGED <<script, imports, deviceCount, currentDevice, version,
                   availBranch>>

TorchPrintCudaVersion ==
    /\ script = "torch" /\ pc = 6
    /\ queries' = queries + 1
    /\ \/ \E v \in CudaVersions :
             /\ WriteStdout("PyTorch CUDA Version: " \o v)
             /\ pc' = 7
             /\ UNCHANGED <<e, status, stderr, raised>>
       \/ \E x \in LibRaises :
             /\ raised' = At(x, "version.cuda")
             /\ Raise(At(x, "version.cuda"), FALSE)
             /\ UNCHANGED stdout
    /\ UNCHANGED <<script, imports, deviceCount, currentDevice, version,
                   availBranch>>

TorchPrintAvailable ==
    /\ script = "torch" /\ pc = 7
    /\ queries' = queries + 1
    /\ \/ \E b \in IsAvailable :
             /\ WriteStdout("CUDA Available: " \o StrBool(b))
             /\ pc' = 8
             /\ UNCHANGED <<e, status, stderr, raised>>
       \/ \E x \in LibRaises :
             /\ raised' = At(x, "is_available")
             /\ Raise(At(x, "is_available"), FALSE)
             /\ UNCHANGED stdout
    /\ UNCHANGED <<script, imports, deviceCount, currentDevice, version,
                   availBranch>>

\* variant: the two branches of the if exchanged
TorchIfAvailable_Inverted ==
    /\ script = "torch" /\ pc = 8
    /\ queries' = queries + 1
    /\ \/ \E b \in IsAvailable :
             /\ availBranch' = StrBool(b)
             /\ pc' = IF b THEN 13 ELSE 9
             /\ UNCHANGED <<e, status, stderr, raised>>
       \/ \E x \in LibRaises :
             /\ raised' = At(x, "is_available")
             /\ Raise(At(x, "is_available"), FALSE)
             /\ UNCHANGED availBranch
    /\ UNCHANGED <<script, stdout, imports, deviceCount, currentDevice,
                   version>>

TorchIfAvailable ==
    /\ script = "torch" /\ pc = 8
    /\ queries' = queries + 1
    /\ \/ \E b \in IsAvailable :
             /\ availBranch' = StrBool(b)
             /\ pc' = IF b THEN 9 ELSE 13
             /\ UNCHANGED <<e, status, stderr, raised>>
       \/ \E x \in LibRaises :
             /\ raised' = At(x, "is_available")
             /\ Raise(At(x, "is_available"), FALSE)
             /\ UNCHANGED availBranch
    /\ UNCHANGED <<script, stdout, imports, deviceCount, currentDevice,
                   version>>

TorchPrintDeviceCount ==
    /\ script = "torch" /\ pc = 9
    /\ queries' = queries + 1
    /\ \/ \E n \in DeviceCounts :
             /\ deviceCount' = <<n>>
             /\ WriteStdout("CUDA Device Count: " \o ToString(n))
             /\ pc' = 10
             /\ UNCHANGED <<e, status, stderr, raised>>
       \/ \E x \in LibRaises :
             /\ raised' = At(x, "device_count")
             /\ Raise(At(x, "device_count"), FALSE)
             /\ UNCHANGED <<stdout, deviceCount>>
    /\ UNCHANGED <<script, imports, currentDevice, version, availBranch>>

TorchPrintCurrentDevice ==
    /\ script = "torch" /\ pc = 10
    /\ queries' = queries + 1
    /\ \/ \E i \in DeviceIndexes :
             /\ currentDevice' = <<i>>
             /\ WriteStdout("Current CUDA Device: " \o ToString(i))
             /\ pc' = 11
             /\ UNCHANGED <<e, status, stderr, raised>>
       \/ \E x \in LibRaises :
             /\ raised' = At(x, "current_device")
             /\ Raise(At(x, "current_device"), FALSE)
             /\ UNCHANGED <<stdout, currentDevice>>
    /\ UNCHANGED <<script, imports, deviceCount, version, availBranch>>

\* line 11 makes two calls: torch.cuda.current_device(), then
\* torch.cuda.get_device_name() on its result; either can raise, and when
\* the first does the second is never called
TorchPrintDeviceName ==
    /\ script = "torch" /\ pc = 11
    /\ \/ \E i \in DeviceIndexes, n \in DeviceNames :
             /\ queries' = queries + 2
             /\ WriteStdout("Device Name: " \o n)
             /\ pc' = 14
             /\ UNCHANGED <<e, status, stderr, raised>>
       \/ \E x \in LibRaises :
             /\ queries' = queries + 1
             /\ raised' = At(x, "current_device")
             /\ Raise(At(x, "current_device"), FALSE)
             /\ UNCHANGED stdout
       \/ \E x \in LibRaises :
             /\ queries' = queries + 2
             /\ raised' = At(x, "get_device_name")
             /\ Raise(At(x, "get_device_name"), FALSE)
             /\ UNCHANGED stdout
    /\ UNCHANGED <<script, imports, deviceCount, currentDevice, version,
                   availBranch>>

TorchPrintNotAvailable ==
    /\ script = "torch" /\ pc = 13
    /\ WriteStdout("CUDA is not available to PyTorch.")
    /\ pc' = 14
    /\ UNCHANGED <<script, stderr, status, e, raised, imports, queries,
                   deviceCount, currentDevice, version, availBranch>>

\* the end of the file: the interpreter exits with status 0
TorchEnd ==
    /\ script = "torch" /\ pc = 14
    /\ pc' = 0
    /\ status' = 0
    /\ UNCHANGED <<script, stdout, stderr, e, raised, imports, queries,
                   deviceCount, currentDevice, version, availBranch>>

Next ==
    \/ InsightfaceImport
    \/ InsightfacePrintSuccess
    \/ InsightfaceExit0
    \/ InsightfacePrintImportError
    \/ InsightfaceExitImportError
    \/ InsightfacePrintOtherError
    \/ InsightfaceExitOtherError
    \/ OnnxPrintSysPath
    \/ OnnxPrintPathEnv
    \/ OnnxImport
    \/ OnnxPrintSuccess
    \/ OnnxPrintVersion
    \/ OnnxPrintProviders
    \/ OnnxExit0
    \/ OnnxPrintImportError
    \/ OnnxTraceImportError
    \/ OnnxExitImportError
    \/ OnnxPrintOtherError
    \/ OnnxTraceOtherError
    \/ OnnxExitOtherError
    \/ TorchImport
    \/ TorchPrintPython
    \/ TorchPrintVersion
    \/ TorchPrintCudaVersion
    \/ TorchPrintAvailable
    \/ TorchIfAvailable
    \/ TorchPrintDeviceCount
    \/ TorchPrintCurrentDevice
    \/ TorchPrintDeviceName
    \/ TorchPrintNotAvailable
    \/ TorchEnd

Spec == Init /\ [][Next]_vars

\* the interpreter runs the script without pause: a step that can be
\* taken is taken
FairSpec == Spec /\ WF_vars(Next)

(***************************************************************************)
(* Vocabulary of the properties.                                           *)
(***************************************************************************)
Exited == pc = 0

ImportFailed == raised.origin = "import" /\ IsInstance(raised, "ImportError")

\* the import succeeded and no query raised
NothingRaised == imports = 1 /\ raised = NoExc

QueryRaised == raised.origin \in {"__version__", "get_available_providers"}

\* a traceback was written
TraceOn(out) == HasLineStarting(out, "Traceback")

DeviceLines == {"CUDA Device Count: ", "Current CUDA Device: ", "Device Name: "}

\* the text after the prefix p on the first line of out that starts with p
Field(out, p) ==
    LET i == CHOOSE j \in 1..Len(out) : StartsWith(out[j], p)
    IN  SubSeq(out[i], Len(p) + 1, Len(out[i]))

\* int() of a printed number
ParseInt(s) == CHOOSE n \in DeviceIndexes : ToString(n) = s

(***************************************************************************)
(* C1: in every script, a run whose import raises ImportError exits with   *)
(* status 1, has a line starting with "ERROR" in its output, and ends      *)
(* through an except handler (the exception was caught), not with an       *)
(* unhandled exception.                                                    *)
(***************************************************************************)
C1_AbsentLibraryReported ==
    (Exited /\ ImportFailed) =>
        /\ status = 1
        /\ HasLineStarting(stdout, "ERROR")
        /\ e = raised

(***************************************************************************)
(* C2: in every script, a run in which the import succeeds and no          *)
(* introspection call raises exits with status 0 and has a line            *)
(* containing "SUCCESS" in its output.                                     *)
(***************************************************************************)
C2_SuccessReported ==
    (Exited /\ NothingRaised) =>
        /\ status = 0
        /\ HasLineContaining(stdout, "SUCCESS")

(***************************************************************************)
(* C3 as stated: in script_check_onnx.py, when a query after the import    *)
(* raises any exception that is not an ImportError, with message M, the    *)
(* run exits with status 1 and an "ERROR" line of the output holds M.      *)
(***************************************************************************)
C3_AnyQueryErrorReported ==
    (Exited /\ script = "onnx" /\ QueryRaised
        /\ ~IsInstance(raised, "ImportError")) =>
        /\ status = 1
        /\ \E i \in 1..Len(stdout) :
              StartsWith(stdout[i], "ERROR") /\ Contains(stdout[i], Str(raised))

(***************************************************************************)
(* C3 amended: the same for every exception that is an instance of         *)
(* Exception and not of ImportError (the except clause is "except          *)
(* Exception", which SystemExit and the other direct BaseException         *)
(* subclasses pass through).                                               *)
(***************************************************************************)
C3_QueryErrorReported ==
    (Exited /\ script = "onnx" /\ QueryRaised
        /\ IsInstance(raised, "Exception")
        /\ ~IsInstance(raised, "ImportError")) =>
        /\ status = 1
        /\ \E i \in 1..Len(stdout) :
              StartsWith(stdout[i], "ERROR") /\ Contains(stdout[i], raised.msg)

C3_Witness ==
    /\ Exited /\ script = "onnx" /\ status = 1
    /\ raised.origin = "get_available_providers"
    /\ raised.kind = "RuntimeError" /\ raised.msg = "boom"
    /\ HasLineContaining(stdout, "boom")

(***************************************************************************)
(* C4 as stated: in check_torch.py, for every run that completes: if the   *)
(* availability check that gates the branch returned False, none of the    *)
(* three device lines is in the output; if it returned True, all three     *)
(* are, and the printed current device index i and the printed device      *)
(* count n satisfy 0 <= i < n.                                             *)
(***************************************************************************)
C4_DeviceIndexInRange ==
    (Exited /\ script = "torch" /\ raised = NoExc) =>
        /\ availBranch = "False" =>
              \A p \in DeviceLines : ~HasLineStarting(stdout, p)
        /\ availBranch = "True" =>
              /\ \A p \in DeviceLines : HasLineStarting(stdout, p)
              /\ LET i == ParseInt(Field(stdout, "Current CUDA Device: "))
                     n == ParseInt(Field(stdout, "CUDA Device Count: "))
                 IN  0 <= i /\ i < n

(***************************************************************************)
(* C4 amended: the three device lines are gated as stated, and the         *)
(* printed count and the printed index are the values that                 *)
(* torch.cuda.device_count() and torch.cuda.current_device() returned at   *)
(* lines 9 and 10, printed unchecked: the index is within [0, count)       *)
(* exactly when the values torch returned are.                             *)
(***************************************************************************)
C4_DeviceLinesGated ==
    (Exited /\ script = "torch" /\ raised = NoExc) =>
        /\ availBranch \in {"True", "False"}
        /\ availBranch = "False" =>
              /\ \A p \in DeviceLines : ~HasLineStarting(stdout, p)
              /\ deviceCount = <<>> /\ currentDevice = <<>>
        /\ availBranch = "True" =>
              /\ \A p \in DeviceLines : HasLineStarting(stdout, p)
              /\ Len(deviceCount) = 1 /\ Len(currentDevice) = 1
              /\ LET i == ParseInt(Field(stdout, "Current CUDA Device: "))
                     n == ParseInt(Field(stdout, "CUDA Device Count: "))
                 IN  i = currentDevice[1] /\ n = deviceCount[1]

C4_Witness ==
    /\ Exited /\ script = "torch" /\ raised = NoExc
    /\ availBranch = "True"
    /\ HasLineStarting(stdout, "Device Name: ")
    /\ Field(stdout, "Current CUDA Device: ") = "1"
    /\ Field(stdout, "CUDA Device Count: ") = "2"
    /\ currentDevice = <<1>> /\ deviceCount = <<2>>

(***************************************************************************)
(* C5: in both library probes, a run whose import raises ImportError       *)
(* writes no traceback at all (on either stream); a traceback is written   *)
(* only when the exception is not an ImportError.                          *)
(***************************************************************************)
C5_NoTraceForAbsence ==
    (script \in Probes /\ ImportFailed) =>
        ~TraceOn(stdout) /\ ~TraceOn(stderr)

(***************************************************************************)
(* C6 as stated: in both library probes, when the library is present,      *)
(* reports version V and no query raises, the output holds "SUCCESS" and   *)
(* V and the exit status is 0.                                             *)
(***************************************************************************)
C6_VersionInBothProbes ==
    (Exited /\ script \in Probes /\ NothingRaised) =>
        /\ HasLineContaining(stdout, "SUCCESS")
        /\ HasLineContaining(stdout, version)
        /\ status = 0

(***************************************************************************)
(* C6 amended: under the same condition both probes print "SUCCESS" and    *)
(* exit with status 0, and script_check_onnx.py also prints V              *)
(* (script_check_insightface.py does not query the version).               *)
(***************************************************************************)
C6_VersionReported ==
    (Exited /\ script \in Probes /\ NothingRaised) =>
        /\ HasLineContaining(stdout, "SUCCESS")
        /\ script = "onnx" => HasLineContaining(stdout, version)
        /\ status = 0

C6_Witness ==
    /\ Exited /\ script = "onnx" /\ NothingRaised
    /\ version = "1.2.3"
    /\ HasLineContaining(stdout, "1.2.3")
    /\ status = 0

(***************************************************************************)
(* C7: on the success path and on both handled error paths, no script      *)
(* writes anything to a stream other than standard output: standard error  *)
(* stays empty.                                                            *)
(***************************************************************************)
C7_StdoutOnly ==
    (raised = NoExc \/ e = raised) => stderr = <<>>

(***************************************************************************)
(* C8: in both library probes the import is attempted exactly once; once   *)
(* an "ERROR" line is printed no import and no library query is made and   *)
(* no "SUCCESS" line is printed, and the process ends with status 1;       *)
(* every run reaches process exit.                                         *)
(***************************************************************************)
C8_ReportThenExit ==
    /\ [](script \in Probes => (imports <= 1 /\ (Exited => imports = 1)))
    /\ [][(script \in Probes /\ HasLineStarting(stdout, "ERROR")) =>
             /\ imports' = imports
             /\ queries' = queries
             /\ stdout' = stdout
             /\ (pc' = 0 => status' = 1)]_vars
    /\ [](script \in Probes /\ HasLineStarting(stdout, "ERROR") /\ Exited
             => status = 1)
    /\ <>Exited

C8_Witness ==
    /\ Exited /\ script \in Probes /\ imports = 1 /\ status = 1
    /\ HasLineStarting(stdout, "ERROR")

(***************************************************************************)
(* C9: in check_torch.py the printed availability agrees with the branch   *)
(* taken: in a completed run the device lines are printed iff "CUDA        *)
(* Available: True" was printed, and "CUDA is not available to PyTorch."   *)
(* iff "CUDA Available: False" was printed.                                *)
(***************************************************************************)
C9_PrintedAgreesWithBranch ==
    (Exited /\ script = "torch" /\ raised = NoExc) =>
        /\ (\A p \in DeviceLines : HasLineStarting(stdout, p))
              <=> HasLineStarting(stdout, "CUDA Available: True")
        /\ (\E p \in DeviceLines : HasLineStarting(stdout, p))
              <=> HasLineStarting(stdout, "CUDA Available: True")
        /\ HasLineStarting(stdout, "CUDA is not available to PyTorch.")
              <=> HasLineStarting(stdout, "CUDA Available: False")

(***************************************************************************)
(* C10 as stated: in both library probes a run has a "SUCCESS:" line iff   *)
(* it exits with status 0, and no run has both a "SUCCESS:" and an         *)
(* "ERROR:" line.                                                          *)
(***************************************************************************)
C10_MarkerIffStatus ==
    script \in Probes =>
        /\ Exited => (HasLineStarting(stdout, "SUCCESS:") <=> status = 0)
        /\ ~(HasLineStarting(stdout, "SUCCESS:")
                /\ HasLineStarting(stdout, "ERROR:"))

\* the library ended the process itself with exit code 0
LibraryExit0 == IsInstance(raised, "SystemExit") /\ raised.code = 0

(***************************************************************************)
(* C10 amended: in both library probes a run has a "SUCCESS:" line iff it  *)
(* exits with status 0, and no run has both a "SUCCESS:" and an "ERROR:"   *)
(* line (the SystemExit of the script's sys.exit(0) is caught by neither   *)
(* handler), with two exceptions.  (a) In script_check_onnx.py, where the  *)
(* "SUCCESS:" line is printed before the queries, a run in which a query   *)
(* raises has the "SUCCESS:" line, exits with status 0 only if the         *)
(* exception is a SystemExit with code 0, and also has an "ERROR:" line    *)
(* exactly when the exception is an instance of Exception.  (b) A run in   *)
(* which the import itself raises SystemExit with code 0 exits with        *)
(* status 0 and has no "SUCCESS:" line.  In every run an "ERROR:" line     *)
(* means exit status 1.                                                    *)
(***************************************************************************)
C10_MarkerAgreesWithStatus ==
    script \in Probes =>
        /\ (Exited /\ ~(QueryRaised /\ ~LibraryExit0)
                   /\ ~(raised.origin = "import" /\ LibraryExit0)) =>
              (HasLineStarting(stdout, "SUCCESS:") <=> status = 0)
        /\ (HasLineStarting(stdout, "SUCCESS:")
                /\ HasLineStarting(stdout, "ERROR:")) =>
              /\ script = "onnx"
              /\ QueryRaised
              /\ IsInstance(raised, "Exception")
        /\ (Exited /\ QueryRaised) =>
              /\ script = "onnx"
              /\ HasLineStarting(stdout, "SUCCESS:")
              /\ status = 0 <=> LibraryExit0
              /\ HasLineStarting(stdout, "ERROR:")
                    <=> IsInstance(raised, "Exception")
        /\ (Exited /\ raised.origin = "import" /\ LibraryExit0) =>
              /\ status = 0
              /\ ~HasLineStarting(stdout, "SUCCESS:")
        /\ (Exited /\ HasLineStarting(stdout, "ERROR:")) => status = 1

\* a run of script_check_onnx.py that ends through its own sys.exit(0)
C10_Witness ==
    /\ Exited /\ script = "onnx" /\ status = 0 /\ raised = NoExc
    /\ HasLineStarting(stdout, "SUCCESS:")
    /\ ~HasLineStarting(stdout, "ERROR:")
====
